---- MODULE Spec2Model ----
(***************************************************************************)
(* Crokinole score-card scheduler: the pipeline of App                     *)
(*   splitIntoGroups -> buildGroupPairings -> buildGlobalSchedule          *)
(*   -> rebalanceBoards                                                    *)
(* Players are the numbers 1..n (player Pn is n); the bye slot '__BYE__'   *)
(* is 0.  Arrays are sequences; zero-based loop counters of the source     *)
(* keep their zero-based values and index a sequence at counter + 1.       *)
(***************************************************************************)
EXTENDS Integers, Sequences, FiniteSets, TLC

VARIABLES
    groups,       \* App: splitIntoGroups(players, numGroups), or any list of groups
    numBoards,    \* App state numBoards (uncoerced)
    numRounds,    \* App state numRounds (uncoerced)
    pc,           \* position in the pipeline
    groupRounds,  \* buildGroupPairings(groups)
    target,       \* buildGlobalSchedule: let target
    attempt,      \* tryBuild's locals: r, gamesPlayed, pairPlayed, lastPlayedRound, schedule
    rawSchedule,  \* the value buildGlobalSchedule returns
    rounds,       \* rebalanceBoards: the working copy
    lastBoard,    \* rebalanceBoards: player -> board, a partial map
    r,            \* rebalanceBoards: round counter (zero-based)
    improved,     \* rebalanceBoards: let improved
    guard,        \* rebalanceBoards: let guard
    i,            \* rebalanceBoards: outer swap counter (zero-based)
    j,            \* rebalanceBoards: inner swap counter (zero-based)
    schedule      \* the value rebalanceBoards returns

vars == <<groups, numBoards, numRounds, pc, groupRounds, target, attempt,
          rawSchedule, rounds, lastBoard, r, improved, guard, i, j, schedule>>

\* ---------------------------------------------------------------- bounds
MaxGroups == 2
MaxGroupSize == 3
MaxPlayers == 5
MaxBoards == 2
MaxRounds == 4

\* ------------------------------------------------------ program constants
BYE == 0
MaxPasses == 10
DefaultPlayers == 8
DefaultGroups == 2
DefaultBoards == 3
DefaultRounds == 6

\* ---------------------------------------------------------------- helpers
Max2(x, y) == IF x >= y THEN x ELSE y

Min2(x, y) == IF x <= y THEN x ELSE y

Reverse(s) == [k \in 1..Len(s) |-> s[Len(s) + 1 - k]]

Range(s) == {s[k] : k \in 1..Len(s)}

RECURSIVE Concat(_)
Concat(ss) == IF ss = <<>> THEN <<>> ELSE Head(ss) \o Concat(Tail(ss))

\* Array.from(new Set(s)): the elements of s in order of first occurrence
Dedup(s) ==
    LET first == SelectSeq([k \in 1..Len(s) |-> k],
                           LAMBDA k : \A k2 \in 1..(k - 1) : s[k2] # s[k])
    IN  [x \in 1..Len(first) |-> s[first[x]]]

\* Math.max(1, Number(x) || 1)
Coerce1(x) == Max2(1, IF x = 0 THEN 1 ELSE x)

\* ----------------------------------------------------------- scheduler.js
buildPlayers(n) == [k \in 1..Max2(0, n) |-> k]

splitIntoGroups(players, numGroups) ==
    LET g == Coerce1(numGroups)
    IN  [gi \in 1..g |->
            SelectSeq(players, LAMBDA p : \E k \in 1..Len(players) :
                                             players[k] = p /\ (k - 1) % g = gi - 1)]

\* one rotation's pairs: a[i] with b[i], the pairs holding the bye dropped
RoundPairs(a, b) ==
    LET all == [k \in 1..Len(a) |-> <<a[k], b[k]>>]
    IN  SelectSeq(all, LAMBDA p : p[1] # BYE /\ p[2] # BYE)

RotateA(a, b, half) ==
    LET fixed == a[1]
        rest == Tail(a) \o SubSeq(b, 1, 1)
    IN  <<fixed>> \o SubSeq(rest, 1, half - 1)

\* variant: newB without .reverse()
RotateBUnreversed(a, b, half) ==
    LET rest == Tail(a) \o SubSeq(b, 1, 1)
    IN  SubSeq(rest, half, Len(rest)) \o Tail(b)

RotateB(a, b, half) ==
    LET rest == Tail(a) \o SubSeq(b, 1, 1)
    IN  Reverse(SubSeq(rest, half, Len(rest)) \o Tail(b))

RECURSIVE RoundRobinLoop(_, _, _, _, _)
RoundRobinLoop(a, b, rr, n, acc) ==
    IF rr >= n - 1 THEN acc
    ELSE RoundRobinLoop(RotateA(a, b, n \div 2), RotateB(a, b, n \div 2),
                        rr + 1, n, Append(acc, RoundPairs(a, b)))

roundRobinPairs(group) ==
    LET arr == IF Len(group) % 2 = 1 THEN Append(group, BYE) ELSE group
        n == Len(arr)
        half == n \div 2
    IN  RoundRobinLoop(SubSeq(arr, 1, half), Reverse(SubSeq(arr, half + 1, n)),
                       0, n, <<>>)

buildGroupPairings(gs) == [gi \in 1..Len(gs) |-> roundRobinPairs(gs[gi])]

boards == Coerce1(numBoards)

totalRounds == Coerce1(numRounds)

\* the builder's own groups: the players seen in each group's pairs
\* r.forEach(([A, B]) => { s.add(A); s.add(B) }): A, B of every pair in turn
Added(pairs) ==
    [x \in 1..(2 * Len(pairs)) |-> pairs[(x + 1) \div 2][IF x % 2 = 1 THEN 1 ELSE 2]]

BuilderGroups(gr) == [gi \in 1..Len(gr) |-> Dedup(Added(Concat(gr[gi])))]

allPlayers == Dedup(Concat(BuilderGroups(groupRounds)))

\* for i, for j = i + 1: the matches of one group, row by row
GroupMatches(gPlayers, gi) ==
    Concat([ii \in 1..Len(gPlayers) |->
               [x \in 1..(Len(gPlayers) - ii) |->
                   [A |-> gPlayers[ii], B |-> gPlayers[ii + x], group |-> gi]]])

allMatches ==
    LET gs == BuilderGroups(groupRounds)
    IN  Concat([gi \in 1..Len(gs) |-> GroupMatches(gs[gi], gi)])

N == IF Len(allPlayers) = 0 THEN 1 ELSE Len(allPlayers)

\* variant: the two players of a match not counted
capByBoardsPerMatch == (boards * totalRounds) \div N

capByBoards == (boards * totalRounds * 2) \div N

capByRounds == totalRounds

RECURSIVE MinOver(_)
MinOver(s) == IF Len(s) = 1 THEN s[1] ELSE Min2(Head(s), MinOver(Tail(s)))

\* variant: groups without players left out of the minimum
capByOpponentsOfNonEmpty ==
    LET gs == SelectSeq(BuilderGroups(groupRounds), LAMBDA g : Len(g) # 0)
    IN  IF Len(gs) # 0
        THEN MinOver([gi \in 1..Len(gs) |-> Max2(0, Len(gs[gi]) - 1)])
        ELSE 0

capByOpponents ==
    LET gs == BuilderGroups(groupRounds)
    IN  IF Len(gs) # 0
        THEN MinOver([gi \in 1..Len(gs) |-> Max2(0, Len(gs[gi]) - 1)])
        ELSE 0

InitialTarget == Max2(0, Min2(capByBoards, Min2(capByRounds, capByOpponents)))

\* the key of pairPlayed: the pair with its smaller name first
PairKey(m) == IF m.A < m.B THEN <<m.A, m.B>> ELSE <<m.B, m.A>>

NewAttempt ==
    [r |-> 1,
     gamesPlayed |-> [p \in Range(allPlayers) |-> 0],
     pairPlayed |-> {},
     lastPlayedRound |-> [p \in Range(allPlayers) |-> 0],
     schedule |-> <<>>]

\* variant: the pair history not consulted
IsCandidateIgnoringHistory(at, targetGames, m) ==
    /\ at.gamesPlayed[m.A] < targetGames
    /\ at.gamesPlayed[m.B] < targetGames

IsCandidate(at, targetGames, m) ==
    /\ PairKey(m) \notin at.pairPlayed
    /\ at.gamesPlayed[m.A] < targetGames
    /\ at.gamesPlayed[m.B] < targetGames

hadByePrev(at, p) ==
    IF at.r = 1 THEN FALSE ELSE at.lastPlayedRound[p] # at.r - 1

\* the comparator of candidates.sort: negative when m1 sorts before m2
Compare(at, targetGames, m1, m2) ==
    LET b2i(x) == IF x THEN 1 ELSE 0
        need(p) == targetGames - at.gamesPlayed[p]
        byeScore1 == b2i(hadByePrev(at, m1.A)) + b2i(hadByePrev(at, m1.B))
        byeScore2 == b2i(hadByePrev(at, m2.A)) + b2i(hadByePrev(at, m2.B))
        d1 == need(m1.A) + need(m1.B)
        d2 == need(m2.A) + need(m2.B)
        mx1 == Max2(need(m1.A), need(m1.B))
        mx2 == Max2(need(m2.A), need(m2.B))
    IN  IF byeScore2 # byeScore1 THEN byeScore2 - byeScore1
        ELSE IF d2 # d1 THEN d2 - d1
        ELSE mx2 - mx1

\* Array.prototype.sort is stable: a candidate comes after those the comparator
\* puts before it and after the earlier ones it ties with
SortCandidates(at, targetGames, cands) ==
    LET n == Len(cands)
        before(k) == {k2 \in 1..n :
                         LET c == Compare(at, targetGames, cands[k2], cands[k])
                         IN  c < 0 \/ (c = 0 /\ k2 < k)}
        ranked == {<<Cardinality(before(k)) + 1, k>> : k \in 1..n}
    IN  [x \in 1..n |-> cands[CHOOSE k \in 1..n : <<x, k>> \in ranked]]

\* variant: only player A looked up in usedThisRound
CanPlaceCheckingAOnly(round, used, m) == m.A \notin used

CanPlace(round, used, m) ==
    /\ m.A \notin used
    /\ m.B \notin used

\* for (const m of candidates): the matches pushed to the round
RECURSIVE Select(_, _, _, _)
Select(cands, rnd, round, used) ==
    IF cands = <<>> \/ Len(round) >= boards THEN round
    ELSE LET m == Head(cands)
         IN  IF ~CanPlace(round, used, m) THEN Select(Tail(cands), rnd, round, used)
             ELSE Select(Tail(cands), rnd,
                         Append(round, [round |-> rnd, board |-> Len(round) + 1,
                                        A |-> m.A, B |-> m.B, group |-> m.group]),
                         used \cup {m.A, m.B})

Players(round) == UNION {{round[k].A, round[k].B} : k \in 1..Len(round)}

\* one iteration of tryBuild's loop over the rounds
TryRound(at, targetGames) ==
    LET candidates == SelectSeq(allMatches, LAMBDA m : IsCandidate(at, targetGames, m))
        sorted == SortCandidates(at, targetGames, candidates)
        round == Select(sorted, at.r, <<>>, {})
        played(p) == Cardinality({k \in 1..Len(round) : p \in {round[k].A, round[k].B}})
    IN  [r |-> at.r + 1,
         gamesPlayed |-> [p \in DOMAIN at.gamesPlayed |-> at.gamesPlayed[p] + played(p)],
         pairPlayed |-> at.pairPlayed \cup {PairKey(round[k]) : k \in 1..Len(round)},
         lastPlayedRound |-> [p \in DOMAIN at.lastPlayedRound |->
                                 IF p \in Players(round) THEN at.r ELSE at.lastPlayedRound[p]],
         schedule |-> Append(at.schedule, round)]

\* variant: mn === mx without mx === targetGames
equalAmongPlayers(at, targetGames) ==
    /\ allPlayers # <<>>
    /\ \A p, q \in Range(allPlayers) : at.gamesPlayed[p] = at.gamesPlayed[q]

\* variant: no counts taken as equal
equalWhenEmpty(at, targetGames) ==
    \A p \in Range(allPlayers) : at.gamesPlayed[p] = targetGames

\* Math.min() of no counts is Infinity and Math.max() is -Infinity: never equal
equal(at, targetGames) ==
    /\ allPlayers # <<>>
    /\ \A p \in Range(allPlayers) : at.gamesPlayed[p] = targetGames

EmptySchedule == [k \in 1..totalRounds |-> <<>>]

\* variant: target -= 2
NextTargetSkipping(t) == t - 2

\* target -= 1
NextTarget(t) == t - 1

\* ------------------------------------------------------ rebalanceBoards
\* lastBoard[p], undefined (0, no board) for a player not yet in the map
LastBoardOf(lb, p) == IF p \in DOMAIN lb THEN lb[p] ELSE 0

conflictForMatch(lb, m) ==
    (IF LastBoardOf(lb, m.A) = m.board THEN 1 ELSE 0)
        + (IF LastBoardOf(lb, m.B) = m.board THEN 1 ELSE 0)

\* const rounds = schedule.map(r => r.map(m => ({ ...m })))
CloneSchedule(s) == [k \in 1..Len(s) |-> [x \in 1..Len(s[k]) |-> s[k][x]]]

\* variant: m1.board = b2 without m2.board = b1
SwapBoardsOneSided(matches, ii, jj) ==
    [matches EXCEPT ![ii + 1].board = matches[jj + 1].board]

\* m1.board = b2; m2.board = b1 on matches[ii], matches[jj] (zero-based)
SwapBoards(matches, ii, jj) ==
    LET b1 == matches[ii + 1].board
        b2 == matches[jj + 1].board
    IN  [matches EXCEPT ![ii + 1].board = b2, ![jj + 1].board = b1]

\* variant: after <= before
KeepSwapOnTie(before, after) == after <= before

\* after < before
KeepSwap(before, after) == after < before

\* for (const m of matches) { lastBoard[m.A] = m.board; lastBoard[m.B] = m.board }
RECURSIVE RecordBoards(_, _)
RecordBoards(lb, matches) ==
    IF matches = <<>> THEN lb
    ELSE LET m == Head(matches)
             lbA == [p \in DOMAIN lb \cup {m.A} |-> IF p = m.A THEN m.board ELSE lb[p]]
             lbB == [p \in DOMAIN lbA \cup {m.B} |-> IF p = m.B THEN m.board ELSE lbA[p]]
         IN  RecordBoards(lbB, Tail(matches))

\* while (improved && guard < 10)
LoopAgain(imp, g) == imp /\ g < MaxPasses

matches == rounds[r + 1]

\* ------------------------------------------------------------ inputs, Init
RECURSIVE SizeLists(_)
SizeLists(len) ==
    IF len = 0 THEN {<<>>}
    ELSE {Append(ks, k) : ks \in SizeLists(len - 1), k \in 0..MaxGroupSize}

\* groups of consecutive players with the given sizes
BlockGroups(ks) ==
    LET start(gi) == Len(Concat([k \in 1..gi - 1 |-> [x \in 1..ks[k] |-> 0]]))
    IN  [gi \in 1..Len(ks) |-> [x \in 1..ks[gi] |-> start(gi) + x]]

InputGroups ==
    {splitIntoGroups(buildPlayers(n), g) : n \in 0..MaxPlayers, g \in 0..MaxGroups}
        \cup {BlockGroups(ks) : ks \in UNION {SizeLists(len) : len \in 0..MaxGroups}}

Idle ==
    /\ groupRounds = <<>>
    /\ target = 0
    /\ attempt = [r |-> 1, gamesPlayed |-> <<>>, pairPlayed |-> {},
                  lastPlayedRound |-> <<>>, schedule |-> <<>>]
    /\ rawSchedule = <<>>
    /\ rounds = <<>>
    /\ lastBoard = <<>>
    /\ r = 0
    /\ improved = TRUE
    /\ guard = 0
    /\ i = 0
    /\ j = 0
    /\ schedule = <<>>

\* a tournament of one small and one large group: 4 and 17 players
UnevenGroups == BlockGroups(<<4, 17>>)

\* the inputs: every small one, the defaults of App, and the uneven tournament
Init ==
    /\ pc = "pairings"
    /\ \/ /\ groups \in InputGroups
          /\ numBoards \in 0..MaxBoards
          /\ numRounds \in 0..MaxRounds
       \/ /\ groups = splitIntoGroups(buildPlayers(DefaultPlayers), DefaultGroups)
          /\ numBoards = DefaultBoards
          /\ numRounds = DefaultRounds
       \/ /\ groups = UnevenGroups
          /\ numBoards = 4
          /\ numRounds = 6
    /\ Idle

\* ---------------------------------------------------------------- actions
rebalVars == <<rounds, lastBoard, r, improved, guard, i, j, schedule>>

inputVars == <<groups, numBoards, numRounds>>

buildVars == <<groupRounds, target, attempt, rawSchedule>>

BuildGroupPairings ==
    /\ pc = "pairings"
    /\ groupRounds' = buildGroupPairings(groups)
    /\ pc' = "schedule"
    /\ UNCHANGED <<inputVars, target, attempt, rawSchedule, rebalVars>>

\* buildGlobalSchedule up to the first call of tryBuild
BuildGlobalSchedule ==
    /\ pc = "schedule"
    /\ target' = InitialTarget
    /\ attempt' = NewAttempt
    /\ pc' = "tryBuild"
    /\ UNCHANGED <<inputVars, groupRounds, rawSchedule, rebalVars>>

TryBuildRound ==
    /\ pc = "tryBuild"
    /\ attempt.r <= totalRounds
    /\ attempt' = TryRound(attempt, target)
    /\ UNCHANGED <<inputVars, pc, groupRounds, target, rawSchedule, rebalVars>>

\* if (attempt.equal) return attempt.schedule
AttemptSucceeds ==
    /\ pc = "tryBuild"
    /\ attempt.r > totalRounds
    /\ equal(attempt, target)
    /\ rawSchedule' = attempt.schedule
    /\ pc' = "rebalance"
    /\ UNCHANGED <<inputVars, groupRounds, target, attempt, rebalVars>>

\* target -= 1, and the next tryBuild while target >= 0
AttemptFails ==
    /\ pc = "tryBuild"
    /\ attempt.r > totalRounds
    /\ ~equal(attempt, target)
    /\ target' = NextTarget(target)
    /\ IF NextTarget(target) >= 0
       THEN attempt' = NewAttempt /\ pc' = "tryBuild"
       ELSE attempt' = attempt /\ pc' = "fallback"
    /\ UNCHANGED <<inputVars, groupRounds, rawSchedule, rebalVars>>

\* return Array.from({ length: totalRounds }, () => [])
Fallback ==
    /\ pc = "fallback"
    /\ rawSchedule' = EmptySchedule
    /\ pc' = "rebalance"
    /\ UNCHANGED <<inputVars, groupRounds, target, attempt, rebalVars>>

\* rebalanceBoards(rawSchedule) up to its loop over the rounds
RebalanceBoards ==
    /\ pc = "rebalance"
    /\ rounds' = CloneSchedule(rawSchedule)
    /\ lastBoard' = <<>>
    /\ r' = 0
    /\ pc' = "round"
    /\ UNCHANGED <<inputVars, buildVars, improved, guard, i, j, schedule>>

\* let improved = true; let guard = 0
RoundBegin ==
    /\ pc = "round"
    /\ r < Len(rounds)
    /\ improved' = TRUE
    /\ guard' = 0
    /\ pc' = "while"
    /\ UNCHANGED <<inputVars, buildVars, rounds, lastBoard, r, i, j, schedule>>

\* the body of the while loop up to the first pair of matches
PassBegin ==
    /\ pc = "while"
    /\ LoopAgain(improved, guard)
    /\ improved' = FALSE
    /\ guard' = guard + 1
    /\ i' = 0
    /\ j' = 1
    /\ pc' = IF Len(matches) >= 2 THEN "swap" ELSE "while"
    /\ UNCHANGED <<inputVars, buildVars, rounds, lastBoard, r, schedule>>

\* j++, then i++ and j = i + 1, then the end of the pass
Advance ==
    IF j + 1 < Len(matches) THEN i' = i /\ j' = j + 1 /\ pc' = "swap"
    ELSE IF i + 2 < Len(matches) THEN i' = i + 1 /\ j' = i + 2 /\ pc' = "swap"
    ELSE i' = i /\ j' = j /\ pc' = "while"

SwapKept ==
    /\ pc = "swap"
    /\ LET m1 == matches[i + 1]
           m2 == matches[j + 1]
           before == conflictForMatch(lastBoard, m1) + conflictForMatch(lastBoard, m2)
           swapped == SwapBoards(matches, i, j)
           after == conflictForMatch(lastBoard, swapped[i + 1])
                        + conflictForMatch(lastBoard, swapped[j + 1])
       IN  /\ KeepSwap(before, after)
           /\ rounds' = [rounds EXCEPT ![r + 1] = swapped]
           /\ improved' = TRUE
    /\ Advance
    /\ UNCHANGED <<inputVars, buildVars, lastBoard, r, guard, schedule>>

SwapReverted ==
    /\ pc = "swap"
    /\ LET m1 == matches[i + 1]
           m2 == matches[j + 1]
           before == conflictForMatch(lastBoard, m1) + conflictForMatch(lastBoard, m2)
           swapped == SwapBoards(matches, i, j)
           after == conflictForMatch(lastBoard, swapped[i + 1])
                        + conflictForMatch(lastBoard, swapped[j + 1])
       IN  ~KeepSwap(before, after)
    /\ Advance
    /\ UNCHANGED <<inputVars, buildVars, rounds, lastBoard, r, improved, guard, schedule>>

\* finalize this round: update lastBoard, then r++
FinalizeRound ==
    /\ pc = "while"
    /\ ~LoopAgain(improved, guard)
    /\ lastBoard' = RecordBoards(lastBoard, matches)
    /\ r' = r + 1
    /\ pc' = "round"
    /\ UNCHANGED <<inputVars, buildVars, rounds, improved, guard, i, j, schedule>>

\* return rounds
RebalanceReturn ==
    /\ pc = "round"
    /\ r >= Len(rounds)
    /\ schedule' = rounds
    /\ pc' = "done"
    /\ UNCHANGED <<inputVars, buildVars, rounds, lastBoard, r, improved, guard, i, j>>

Next ==
    \/ BuildGroupPairings
    \/ BuildGlobalSchedule
    \/ TryBuildRound
    \/ AttemptSucceeds
    \/ AttemptFails
    \/ Fallback
    \/ RebalanceBoards
    \/ RoundBegin
    \/ PassBegin
    \/ SwapKept
    \/ SwapReverted
    \/ FinalizeRound
    \/ RebalanceReturn

Spec == Init /\ [][Next]_vars

\* ------------------------------------------------- the builder as a function
\* tryBuild(targetGames): the attempt after its loop over the rounds
RECURSIVE RunRounds(_, _)
RunRounds(at, targetGames) ==
    IF at.r > totalRounds THEN at ELSE RunRounds(TryRound(at, targetGames), targetGames)

tryBuild(targetGames) == RunRounds(NewAttempt, targetGames)

\* ------------------------------------------------------------- properties
\* buildGlobalSchedule has returned rawSchedule
Built == pc \in {"rebalance", "round", "while", "swap", "done"}

\* every match of a schedule, round after round
Matches(s) == Concat(s)

\* the number of matches of s player p appears in
Games(s, p) ==
    LET ms == Matches(s)
    IN  Cardinality({k \in 1..Len(ms) : p \in {ms[k].A, ms[k].B}})

\* the number of times the unordered pair {a, b} appears in the rounds of pairs rs
PairCount(rs, a, b) ==
    LET ps == Concat(rs)
    IN  Cardinality({k \in 1..Len(ps) : {ps[k][1], ps[k][2]} = {a, b}})

NoRematch(s) ==
    LET ms == Matches(s)
    IN  \A k1, k2 \in 1..Len(ms) :
            k1 # k2 => {ms[k1].A, ms[k1].B} # {ms[k2].A, ms[k2].B}

\* C1: across all rounds roundRobinPairs returns for a group, every unordered
\* pair of distinct group members appears exactly once.
C1_EveryPairExactlyOnce ==
    pc # "pairings" =>
        \A gi \in 1..Len(groups) :
            \A a, b \in Range(groups[gi]) :
                a # b => PairCount(groupRounds[gi], a, b) = 1

\* C2: no unordered pair of players appears in more than one match of the
\* schedule buildGlobalSchedule returns.
C2_NoPairTwice == Built => NoRematch(rawSchedule)

C2_Witness ==
    /\ Built
    /\ Len(Matches(rawSchedule)) >= 3
    /\ \E p \in Range(allPlayers) : Games(rawSchedule, p) >= 2

\* C3: in every round of the returned schedule no player appears in more than
\* one match, and the round holds at most boards (the coerced count) matches.
C3_RoundExclusiveAndBounded ==
    Built =>
        \A k \in 1..Len(rawSchedule) :
            /\ Len(rawSchedule[k]) <= boards
            /\ \A x1, x2 \in 1..Len(rawSchedule[k]) :
                   x1 # x2 =>
                       {rawSchedule[k][x1].A, rawSchedule[k][x1].B}
                           \cap {rawSchedule[k][x2].A, rawSchedule[k][x2].B} = {}
            /\ \A x \in 1..Len(rawSchedule[k]) : rawSchedule[k][x].A # rawSchedule[k][x].B

\* a round filled to the board count although more candidates were left
C3_Witness ==
    /\ Built
    /\ \E k \in 1..Len(rawSchedule) :
           /\ Len(rawSchedule[k]) = boards
           /\ boards >= 2
           /\ Len(allPlayers) > 2 * boards

\* the upper bound of the target: the three caps, the opponent cap being the
\* smallest groupSize - 1 and 0 for a group without a pair
C4_Bound ==
    LET gs == BuilderGroups(groupRounds)
        sizes == {Max2(0, Len(gs[gi]) - 1) : gi \in 1..Len(gs)}
        opp == CHOOSE x \in sizes : \A y \in sizes : x <= y
    IN  Min2((boards * totalRounds * 2) \div Len(allPlayers), Min2(totalRounds, opp))

\* C4: with at least one player, every player plays the same number T of
\* matches, T is at most the bound, tryBuild fails for every target above T up
\* to the bound, and tryBuild(T) ends with every player at T.
C4_EqualAtLargestTarget ==
    (pc = "rebalance" /\ allPlayers # <<>>) =>
        /\ \A p \in Range(Concat(groups)) : Games(rawSchedule, p) = target
        /\ 0 <= target /\ target <= C4_Bound
        /\ \A t \in (target + 1)..C4_Bound : ~equal(tryBuild(t), t)
        /\ equal(tryBuild(target), target)
        /\ rawSchedule = tryBuild(target).schedule

\* a target below the bound was returned after the attempts above it failed
C4_Witness ==
    /\ pc = "rebalance"
    /\ allPlayers # <<>>
    /\ 0 < target
    /\ target < C4_Bound

\* C7: 8 players in 2 groups of 4, 3 boards, 6 rounds: every player plays
\* exactly 3 games and no pairing is repeated.
C7_DefaultsEqualized ==
    (/\ Built
     /\ groups = splitIntoGroups(buildPlayers(DefaultPlayers), DefaultGroups)
     /\ numBoards = DefaultBoards
     /\ numRounds = DefaultRounds) =>
        /\ \A p \in 1..DefaultPlayers : Games(rawSchedule, p) = 3
        /\ NoRematch(rawSchedule)

C7_Witness ==
    /\ pc = "done"
    /\ groups = <<<<1, 3, 5, 7>>, <<2, 4, 6, 8>>>>
    /\ numBoards = DefaultBoards
    /\ numRounds = DefaultRounds
    /\ Len(Matches(schedule)) = 12

\* C8: buildGlobalSchedule returns exactly totalRounds rounds; without players
\* it returns empty rounds through the fallback (target below 0), and with a
\* player the fallback is never reached.
C8_RoundCountAndFallback ==
    /\ Built => Len(rawSchedule) = totalRounds
    /\ (Built /\ allPlayers = <<>>) =>
           /\ target = -1
           /\ \A k \in 1..Len(rawSchedule) : rawSchedule[k] = <<>>
    /\ (pc = "fallback" \/ (Built /\ target < 0)) => allPlayers = <<>>
    /\ (Built /\ allPlayers # <<>>) => target >= 0

C8_Witness ==
    /\ pc = "rebalance"
    /\ allPlayers = <<>>
    /\ groups # <<>>
    /\ target = -1
    /\ Len(rawSchedule) >= 2

\* rebalanceBoards has made its working copy
Rebalancing == pc \in {"round", "while", "swap", "done"}

\* the working copy, and after the return the returned value
Output == IF pc = "done" THEN schedule ELSE rounds

BoardsOf(ms) == {ms[x].board : x \in 1..Len(ms)}

\* C5: rebalanceBoards keeps the rounds, the matches, their positions and their
\* A, B, group and round; a round's boards are a permutation of its input
\* boards; the input schedule is not modified.
C5_OnlyBoardLabelsChange ==
    Rebalancing =>
        /\ Len(Output) = Len(rawSchedule)
        /\ \A k \in 1..Len(rawSchedule) :
               /\ Len(Output[k]) = Len(rawSchedule[k])
               /\ \A x \in 1..Len(rawSchedule[k]) :
                      /\ Output[k][x].A = rawSchedule[k][x].A
                      /\ Output[k][x].B = rawSchedule[k][x].B
                      /\ Output[k][x].group = rawSchedule[k][x].group
                      /\ Output[k][x].round = rawSchedule[k][x].round
               /\ BoardsOf(Output[k]) = BoardsOf(rawSchedule[k])
               /\ Cardinality(BoardsOf(Output[k])) = Len(Output[k])
        /\ rawSchedule = IF target < 0 THEN EmptySchedule ELSE attempt.schedule

\* a returned schedule in which a round's boards were relabelled
C5_Witness ==
    /\ pc = "done"
    /\ \E k \in 1..Len(schedule) : schedule[k] # rawSchedule[k]

\* the board player p used last in the rounds of s before round k, 0 if none
RECURSIVE LastBoardBefore(_, _, _)
LastBoardBefore(s, k, p) ==
    IF k <= 1 THEN 0
    ELSE LET ms == s[k - 1]
             mine == {x \in 1..Len(ms) : p \in {ms[x].A, ms[x].B}}
         IN  IF mine # {} THEN ms[CHOOSE x \in mine : TRUE].board
             ELSE LastBoardBefore(s, k - 1, p)

\* the conflict points of round k of s: a point for each player of a match
\* whose last board before the round is the match's board
RoundScore(s, k) ==
    LET ms == s[k]
        pts(x) == (IF LastBoardBefore(s, k, ms[x].A) = ms[x].board THEN 1 ELSE 0)
                      + (IF LastBoardBefore(s, k, ms[x].B) = ms[x].board THEN 1 ELSE 0)
    IN  Cardinality({<<x, 1>> : x \in {y \in 1..Len(ms) : pts(y) >= 1}})
            + Cardinality({<<x, 2>> : x \in {y \in 1..Len(ms) : pts(y) = 2}})

RECURSIVE TotalScore(_, _)
TotalScore(s, k) == IF k = 0 THEN 0 ELSE RoundScore(s, k) + TotalScore(s, k - 1)

PreviousRound == IF r = 0 THEN <<>> ELSE rounds[r]

\* C9: while round r is processed, lastBoard[p] is the board p used in round
\* r - 1, and p is absent from lastBoard when p did not play in round r - 1.
C9_LastBoardIsPreviousRound ==
    pc \in {"while", "swap"} =>
        \A p \in Range(allPlayers) :
            LET mine == {x \in 1..Len(PreviousRound) :
                             p \in {PreviousRound[x].A, PreviousRound[x].B}}
            IN  IF mine # {}
                THEN /\ p \in DOMAIN lastBoard
                     /\ \A x \in mine : lastBoard[p] = PreviousRound[x].board
                ELSE p \notin DOMAIN lastBoard

\* the conflict score of the round being processed, against lastBoard
RECURSIVE SumConflict(_, _)
SumConflict(lb, ms) ==
    IF ms = <<>> THEN 0 ELSE conflictForMatch(lb, Head(ms)) + SumConflict(lb, Tail(ms))

InRound == IF pc \in {"while", "swap"} THEN SumConflict(lastBoard, matches) ELSE 0

\* no swap of two boards of the round lowers the two matches' combined conflict
LocalOptimum ==
    \A x, y \in 0..(Len(matches) - 1) :
        x < y =>
            LET swapped == [matches EXCEPT ![x + 1].board = matches[y + 1].board,
                                           ![y + 1].board = matches[x + 1].board]
            IN  conflictForMatch(lastBoard, swapped[x + 1])
                    + conflictForMatch(lastBoard, swapped[y + 1])
                    >= conflictForMatch(lastBoard, matches[x + 1])
                           + conflictForMatch(lastBoard, matches[y + 1])

\* C10: a swap either strictly lowers the round's conflict score or leaves the
\* boards as they were; a round takes at most 10 passes; and after a pass
\* without a kept swap no swap of two boards lowers their combined conflict.
C10_SwapsOnlyImprove ==
    /\ [][pc = "swap" => (rounds' = rounds \/ InRound' < InRound)]_vars
    /\ [][(pc \in {"while", "swap"} /\ pc' \in {"while", "swap"}) => InRound' <= InRound]_vars
    /\ [](guard <= MaxPasses)
    /\ []((pc = "while" /\ guard >= 1 /\ ~improved) => LocalOptimum)

\* a pass that kept a swap has ended: the round's boards differ from the input's
C10_Witness ==
    /\ pc = "while"
    /\ improved
    /\ guard >= 1
    /\ matches # rawSchedule[r + 1]
    /\ SumConflict(lastBoard, matches) < SumConflict(lastBoard, rawSchedule[r + 1])

\* the matches of ms that pair a with b, in either order
MatchesOf(ms, a, b) == {k \in 1..Len(ms) : {ms[k].A, ms[k].B} = {a, b}}

\* C11: for every group of 2 or more players allMatches holds each unordered
\* pair of its members exactly once, tagged with the group's 1-based index, and
\* no pair of players of two different groups; every member of such a group
\* appears in a pair of the group's round-robin output.
C11_CandidateUniverseComplete ==
    pc = "schedule" =>
        LET ms == allMatches
        IN  /\ \A gi \in 1..Len(groups) :
                   Len(groups[gi]) >= 2 =>
                       LET seen == Range(Added(Concat(groupRounds[gi])))
                       IN  /\ \A a, b \in Range(groups[gi]) :
                                  a # b =>
                                      /\ Cardinality(MatchesOf(ms, a, b)) = 1
                                      /\ \A k \in MatchesOf(ms, a, b) : ms[k].group = gi
                           /\ Range(groups[gi]) \subseteq seen
            /\ \A k \in 1..Len(ms) :
                   /\ ms[k].group \in 1..Len(groups)
                   /\ ms[k].A # ms[k].B
                   /\ {ms[k].A, ms[k].B} \subseteq Range(groups[ms[k].group])

\* two groups, one of them of 3 players whose round robin misses a pair
C11_Witness ==
    /\ pc = "schedule"
    /\ Len(groups) = 2
    /\ Len(groups[1]) = 3
    /\ Len(groups[2]) >= 2
    /\ \E a, b \in Range(groups[1]) : a # b /\ PairCount(groupRounds[1], a, b) = 0
    /\ Len(allMatches) = 3 + (Len(groups[2]) * (Len(groups[2]) - 1)) \div 2

\* a group of the input with no player or a single one
HasSmallGroup == \E gi \in 1..Len(groups) : Len(groups[gi]) <= 1

\* C12: when a group handed to buildGroupPairings has 0 or 1 players, the
\* opponent cap and the initial target are 0 and every round of the returned
\* schedule is empty, whatever the boards, the rounds and the other groups;
\* the player of a group of 1 is not among the builder's players.
C12_SmallGroupEmptiesSchedule ==
    (pc # "pairings" /\ HasSmallGroup) =>
        /\ capByOpponents = 0
        /\ InitialTarget = 0
        /\ \A gi \in 1..Len(groups) :
               Len(groups[gi]) = 1 => groups[gi][1] \notin Range(allPlayers)
        /\ pc # "schedule" => target <= 0
        /\ Built =>
               /\ Len(rawSchedule) = totalRounds
               /\ \A k \in 1..Len(rawSchedule) : rawSchedule[k] = <<>>
        /\ pc = "done" => \A k \in 1..Len(schedule) : schedule[k] = <<>>

\* a lone player beside a group of 3, with boards and rounds for several games
C12_Witness ==
    /\ pc = "done"
    /\ \E gi \in 1..Len(groups) : Len(groups[gi]) = 1
    /\ \E gi \in 1..Len(groups) : Len(groups[gi]) = 3
    /\ Len(allPlayers) = 3
    /\ boards >= 2
    /\ totalRounds >= 3
    /\ target = 0

====
